---- MODULE Spec2Model ----
(***************************************************************************)
(* Model of the SOEHNLE Terminal 3005 codec (src/src/lib.rs).              *)
(*                                                                         *)
(* A Rust &str is modelled as a sequence of characters; every character is *)
(* a TLA+ string naming it ("0", "W", "ACK", "EACUTE", ...).  CodePoint    *)
(* gives its Unicode scalar value, from which the UTF-8 width, the first   *)
(* byte and the White_Space property follow, so that len() (bytes),        *)
(* is_ascii(), split_at() (byte index, char boundary) and trim() behave as *)
(* in the library.                                                         *)
(***************************************************************************)
EXTENDS Integers, Sequences, FiniteSets, TLC

VARIABLES pc, kind, arg, result, plain, acked

vars == <<pc, kind, arg, result, plain, acked>>

(***************************************************************************)
(* Characters                                                              *)
(***************************************************************************)
DigitChars == {"0", "1", "2", "3", "4", "5", "6", "7", "8", "9"}

CodePoint(c) ==
    CASE c = "ACK"    -> 6        \* const ACK: u8 = 0x06
      [] c = "TAB"    -> 9
      [] c = "NAK"    -> 21       \* const NAK: u8 = 0x15
      [] c = " "      -> 32
      [] c = "+"      -> 43
      [] c = ","      -> 44
      [] c = "-"      -> 45
      [] c = "."      -> 46
      [] c = "0"      -> 48
      [] c = "1"      -> 49
      [] c = "2"      -> 50
      [] c = "3"      -> 51
      [] c = "4"      -> 52
      [] c = "5"      -> 53
      [] c = "6"      -> 54
      [] c = "7"      -> 55
      [] c = "8"      -> 56
      [] c = "9"      -> 57
      [] c = "<"      -> 60
      [] c = ">"      -> 62
      [] c = "A"      -> 65
      [] c = "B"      -> 66
      [] c = "C"      -> 67
      [] c = "N"      -> 78
      [] c = "T"      -> 84
      [] c = "W"      -> 87
      [] c = "X"      -> 88
      [] c = "a"      -> 97
      [] c = "b"      -> 98
      [] c = "g"      -> 103
      [] c = "k"      -> 107
      [] c = "t"      -> 116
      [] c = "x"      -> 120
      [] c = "NBSP"   -> 160      \* U+00A0, White_Space, 2 bytes
      [] c = "EACUTE" -> 233      \* U+00E9, 2 bytes
      [] c = "EMSP"   -> 8195     \* U+2003, White_Space, 3 bytes
      [] c = "EURO"   -> 8364     \* U+20AC, 3 bytes

\* Number of bytes of the UTF-8 encoding of a character.
Utf8Len(c) ==
    IF CodePoint(c) < 128 THEN 1
    ELSE IF CodePoint(c) < 2048 THEN 2
    ELSE IF CodePoint(c) < 65536 THEN 3
    ELSE 4

\* First byte of the UTF-8 encoding of a character.
LeadByte(c) ==
    IF CodePoint(c) < 128 THEN CodePoint(c)
    ELSE IF CodePoint(c) < 2048 THEN 192 + (CodePoint(c) \div 64)
    ELSE IF CodePoint(c) < 65536 THEN 224 + (CodePoint(c) \div 4096)
    ELSE 240 + (CodePoint(c) \div 262144)

\* char::is_whitespace: the Unicode White_Space property.
IsWhitespace(c) ==
    \/ CodePoint(c) \in 9..13
    \/ CodePoint(c) \in {32, 133, 160, 5760, 8232, 8233, 8239, 8287, 12288}
    \/ CodePoint(c) \in 8192..8202

(***************************************************************************)
(* str primitives                                                          *)
(***************************************************************************)
RECURSIVE ByteLen(_)
\* str::len: the length in bytes.
ByteLen(s) == IF s = <<>> THEN 0 ELSE Utf8Len(Head(s)) + ByteLen(Tail(s))

\* str::is_ascii
IsAscii(s) == \A i \in 1..Len(s) : CodePoint(s[i]) < 128

RECURSIVE TrimStart(_)
TrimStart(s) ==
    IF s # <<>> /\ IsWhitespace(Head(s)) THEN TrimStart(Tail(s)) ELSE s

RECURSIVE TrimEnd(_)
TrimEnd(s) ==
    IF s # <<>> /\ IsWhitespace(s[Len(s)])
    THEN TrimEnd(SubSeq(s, 1, Len(s) - 1))
    ELSE s

\* str::trim
Trim(s) == TrimEnd(TrimStart(s))

\* str::split_at(mid): panics unless mid is a byte offset on a character
\* boundary inside the string (or at its end).
SplitAt(s, mid) ==
    IF \E k \in 0..Len(s) : ByteLen(SubSeq(s, 1, k)) = mid
    THEN LET k == CHOOSE j \in 0..Len(s) : ByteLen(SubSeq(s, 1, j)) = mid
         IN  [ok |-> TRUE, head |-> SubSeq(s, 1, k),
              tail |-> SubSeq(s, k + 1, Len(s))]
    ELSE [ok |-> FALSE, head |-> <<>>, tail |-> <<>>]

\* Does pat occur in s at the front?
StartsWith(s, pat) ==
    /\ Len(pat) <= Len(s)
    /\ SubSeq(s, 1, Len(pat)) = pat

RECURSIVE Replace(_, _, _)
\* str::replace(pat, to) for a non-empty pat: non-overlapping matches,
\* left to right, in one pass.
Replace(s, pat, to) ==
    IF s = <<>> THEN <<>>
    ELSE IF StartsWith(s, pat)
         THEN to \o Replace(SubSeq(s, Len(pat) + 1, Len(s)), pat, to)
         ELSE <<Head(s)>> \o Replace(Tail(s), pat, to)

(***************************************************************************)
(* Results: Ok(v), Err(io::Error) and a panic                              *)
(***************************************************************************)
Ok(v) == [tag |-> "Ok", val |-> v]
Err(k, m) == [tag |-> "Err", val |-> [kind |-> k, msg |-> m]]
Panic == [tag |-> "Panic", val |-> [kind |-> "panic", msg |-> "split_at"]]
IsOk(r) == r.tag = "Ok"
IsErr(r) == r.tag = "Err"

(***************************************************************************)
(* Number parsing (core::num, core::num::dec2flt)                          *)
(***************************************************************************)
AllDigits(s) == \A i \in 1..Len(s) : s[i] \in DigitChars

RECURSIVE DecVal(_)
\* The number a string of decimal digits denotes.
DecVal(s) ==
    IF s = <<>> THEN 0
    ELSE 10 * DecVal(SubSeq(s, 1, Len(s) - 1)) + (CodePoint(s[Len(s)]) - 48)

U8Max == 255

\* <u8 as FromStr>::from_str: an optional '+', then at least one decimal
\* digit, and a value that fits 8 bits.
ParseU8(s) ==
    LET body == IF s # <<>> /\ Head(s) = "+" THEN Tail(s) ELSE s
    IN  IF body = <<>> \/ ~AllDigits(body) THEN [ok |-> FALSE, val |-> 0]
        ELSE IF DecVal(body) > U8Max THEN [ok |-> FALSE, val |-> 0]
        ELSE [ok |-> TRUE, val |-> DecVal(body)]

RECURSIVE Normalise(_, _)
\* mant * 10^-scale without trailing fraction zeros.
Normalise(mant, scale) ==
    IF scale > 0 /\ mant % 10 = 0 THEN Normalise(mant \div 10, scale - 1)
    ELSE [mant |-> mant, scale |-> scale]

\* <f32 as FromStr>::from_str on the decimal forms: an optional sign, digits
\* with at most one '.', at least one digit.  The value is kept as the exact
\* decimal the text denotes (the f32 is its rounding).  The characters of
\* exponents and of inf/nan are not in the alphabet of the inputs.
ParseF32(s) ==
    LET signed == s # <<>> /\ Head(s) \in {"+", "-"}
        neg    == s # <<>> /\ Head(s) = "-"
        body   == IF signed THEN Tail(s) ELSE s
        dots   == {i \in 1..Len(body) : body[i] = "."}
        dot    == IF dots = {} THEN Len(body) + 1
                  ELSE CHOOSE i \in dots : \A j \in dots : i <= j
        int    == SubSeq(body, 1, dot - 1)
        frac   == SubSeq(body, dot + 1, Len(body))
        n      == Normalise(DecVal(int \o frac), Len(frac))
    IN  IF /\ Cardinality(dots) <= 1
           /\ AllDigits(int) /\ AllDigits(frac)
           /\ Len(int) + Len(frac) >= 1
        THEN [ok |-> TRUE,
              val |-> [neg |-> neg, mant |-> n.mant, scale |-> n.scale]]
        ELSE [ok |-> FALSE,
              val |-> [neg |-> FALSE, mant |-> 0, scale |-> 0]]

(***************************************************************************)
(* Status codec                                                            *)
(***************************************************************************)
StatusLen == 4

bool_from_str_lenient(s) ==
    IF s = <<"1">> THEN Ok(TRUE) ELSE Ok(FALSE)

\* fn bool_from_str(s: &str) -> Result<bool>
bool_from_str(s) ==
    IF s = <<"1">> THEN Ok(TRUE)
    ELSE IF s = <<"0">> THEN Ok(FALSE)
    ELSE Err("InvalidData", "Could not parse boolean")

\* The four split_at(1) calls and the struct literal of Status::from_str;
\* the `?` operators return the first error, in the order of the fields.
StatusFlags(s) ==
    LET s1 == SplitAt(s, 1)
        s2 == SplitAt(s1.tail, 1)
        s3 == SplitAt(s2.tail, 1)
        s4 == SplitAt(s3.tail, 1)
        under_load    == bool_from_str(s1.head)
        over_load     == bool_from_str(s2.head)
        standstill    == bool_from_str(s3.head)
        empty_message == bool_from_str(s4.head)
    IN  IF ~s1.ok \/ ~s2.ok \/ ~s3.ok \/ ~s4.ok THEN Panic
        ELSE IF ~IsOk(under_load) THEN under_load
        ELSE IF ~IsOk(over_load) THEN over_load
        ELSE IF ~IsOk(standstill) THEN standstill
        ELSE IF ~IsOk(empty_message) THEN empty_message
        ELSE Ok([under_load    |-> under_load.val,
                 over_load     |-> over_load.val,
                 standstill    |-> standstill.val,
                 empty_message |-> empty_message.val])

StatusFromStr_asciiFirst(s) ==
    IF ~IsAscii(s) THEN Err("InvalidData", "Non-ASCII str")
    ELSE IF ByteLen(s) # StatusLen
    THEN Err("InvalidData", "Invalid message length")
    ELSE StatusFlags(s)

\* impl FromStr for Status
StatusFromStr(s) ==
    IF ByteLen(s) # StatusLen
    THEN Err("InvalidData", "Invalid message length")
    ELSE IF ~IsAscii(s) THEN Err("InvalidData", "Non-ASCII str")
    ELSE StatusFlags(s)

(***************************************************************************)
(* Message codec                                                           *)
(***************************************************************************)
MinMessageLen == 7
MaxMessageLen == 27

\* The chain of replace calls that reduces the net-weight field.
NettoValue(netto) ==
    Replace(Replace(Replace(Replace(netto, <<"N">>, <<>>),
                            <<"k", "g">>, <<>>),
                    <<" ">>, <<>>),
            <<",">>, <<".">>)

\* id.replace("W", "").parse::<u8>()
ParseId(id) == ParseU8(Replace(id, <<"W">>, <<>>))

\* v.trim().parse::<f32>()
ParseValue(v) == ParseF32(Trim(v))

MessageFields_idFirst(s) ==
    LET a      == SplitAt(s, 4)
        b      == SplitAt(a.tail, 2)
        status == StatusFromStr(a.head)
        id     == ParseId(b.head)
        value  == ParseValue(NettoValue(b.tail))
    IN  IF ~a.ok \/ ~b.ok THEN Panic
        ELSE IF ~id.ok THEN Err("InvalidData", "Invalid balance ID")
        ELSE IF ~IsOk(status) THEN status
        ELSE IF ~value.ok THEN Err("InvalidData", "Invalid balance ID")
        ELSE Ok([status |-> status.val, id |-> id.val, value |-> value.val])

\* The two split_at calls, the replace chain and the struct literal of
\* Message::from_str; the `?` operators return the first error, in the order
\* status, id, value.
MessageFields(s) ==
    LET a      == SplitAt(s, 4)
        b      == SplitAt(a.tail, 2)
        status == StatusFromStr(a.head)
        id     == ParseId(b.head)
        value  == ParseValue(NettoValue(b.tail))
    IN  IF ~a.ok \/ ~b.ok THEN Panic
        ELSE IF ~IsOk(status) THEN status
        ELSE IF ~id.ok THEN Err("InvalidData", "Invalid balance ID")
        ELSE IF ~value.ok THEN Err("InvalidData", "Invalid balance ID")
        ELSE Ok([status |-> status.val, id |-> id.val, value |-> value.val])

MessageFromStr_noAsciiCheck(s0) ==
    LET s == Trim(s0)
    IN  IF ByteLen(s) > MaxMessageLen \/ ByteLen(s) < MinMessageLen
        THEN Err("InvalidData", "Invalid message length")
        ELSE MessageFields(s)

\* impl FromStr for Message
MessageFromStr(s0) ==
    LET s == Trim(s0)
    IN  IF ByteLen(s) > MaxMessageLen \/ ByteLen(s) < MinMessageLen
        THEN Err("InvalidData", "Invalid message length")
        ELSE IF ~IsAscii(s) THEN Err("InvalidData", "None-ASCII str")
        ELSE MessageFields(s)

(***************************************************************************)
(* Response classifier                                                     *)
(***************************************************************************)
\* s.as_bytes()[0]: indexing an empty slice panics.
FirstByte(s) ==
    IF s = <<>> THEN [ok |-> FALSE, val |-> 0]
    ELSE [ok |-> TRUE, val |-> LeadByte(Head(s))]

ResponseFromStr_loneControl(s0) ==
    LET s == Trim(s0)
        m == MessageFromStr(s)
    IN  IF ByteLen(s) < 1 THEN Err("InvalidData", "Invalid message length")
        ELSE IF s = <<"ACK">> THEN Ok([variant |-> "Ack"])
        ELSE IF s = <<"NAK">> THEN Ok([variant |-> "Nak"])
        ELSE IF ~IsOk(m) THEN m
        ELSE Ok([variant |-> "Message", msg |-> m.val])

\* impl FromStr for Response
ResponseFromStr(s0) ==
    LET s == Trim(s0)
        m == MessageFromStr(s)
    IN  IF ByteLen(s) < 1 THEN Err("InvalidData", "Invalid message length")
        ELSE IF ~FirstByte(s).ok THEN Panic
        ELSE IF FirstByte(s).val = CodePoint("ACK")
        THEN Ok([variant |-> "Ack"])
        ELSE IF FirstByte(s).val = CodePoint("NAK")
        THEN Ok([variant |-> "Nak"])
        ELSE IF ~IsOk(m) THEN m
        ELSE Ok([variant |-> "Message", msg |-> m.val])

(***************************************************************************)
(* Command / Query serializer                                              *)
(***************************************************************************)
TareLimit == 9999999
PadWidth == 7

DigitChar(d) == CHOOSE c \in DigitChars : CodePoint(c) = 48 + d

RECURSIVE Decimal(_)
\* Display of an unsigned integer: its decimal digits, "0" for zero.
Decimal(n) ==
    IF n < 10 THEN <<DigitChar(n)>>
    ELSE Decimal(n \div 10) \o <<DigitChar(n % 10)>>

RECURSIVE ZeroPad(_, _)
\* The {:0w} format flag: zeros on the left up to a minimum width of w.
ZeroPad(s, w) == IF Len(s) >= w THEN s ELSE ZeroPad(<<"0">> \o s, w)

\* Command::with_ack, Query::with_ack
with_ack(x) == <<"WithAck", x>>

CommandToAsciiString_wideLimit(c) ==
    IF c[1] = "Tare" THEN Ok(<<"<", "T", ">">>)
    ELSE IF c[1] = "ClearTare" THEN Ok(<<"<", "T", "C", ">">>)
    ELSE IF c[2] > 99999999
         THEN Err("InvalidInput", "Invalid tare value")
         ELSE Ok(<<"<", "T">> \o ZeroPad(Decimal(c[2]), PadWidth) \o <<">">>)

\* impl ToAsciiString for Command
CommandToAsciiString(c) ==
    IF c[1] = "Tare" THEN Ok(<<"<", "T", ">">>)
    ELSE IF c[1] = "ClearTare" THEN Ok(<<"<", "T", "C", ">">>)
    ELSE IF c[2] > TareLimit
         THEN Err("InvalidInput", "Invalid tare value")
         ELSE Ok(<<"<", "T">> \o ZeroPad(Decimal(c[2]), PadWidth) \o <<">">>)

WithAckCommandToAsciiString_noPad(w) ==
    IF w[2][1] = "Tare" THEN Ok(<<"<", "t", ">">>)
    ELSE IF w[2][1] = "ClearTare" THEN Ok(<<"<", "t", "C", ">">>)
    ELSE IF w[2][2] > TareLimit
         THEN Err("InvalidInput", "Invalid tare value")
         ELSE Ok(<<"<", "t">> \o Decimal(w[2][2]) \o <<">">>)

\* impl ToAsciiString for WithAck<Command>
WithAckCommandToAsciiString(w) ==
    IF w[2][1] = "Tare" THEN Ok(<<"<", "t", ">">>)
    ELSE IF w[2][1] = "ClearTare" THEN Ok(<<"<", "t", "C", ">">>)
    ELSE IF w[2][2] > TareLimit
         THEN Err("InvalidInput", "Invalid tare value")
         ELSE Ok(<<"<", "t">> \o ZeroPad(Decimal(w[2][2]), PadWidth)
                 \o <<">">>)

\* impl ToAsciiString for Query
QueryToAsciiString(q) ==
    IF q[1] = "Once" THEN Ok(<<"<", "A", ">">>) ELSE Ok(<<"<", "B", ">">>)

\* impl ToAsciiString for WithAck<Query>
WithAckQueryToAsciiString(w) ==
    IF w[2][1] = "Once" THEN Ok(<<"<", "a", ">">>) ELSE Ok(<<"<", "b", ">">>)

(***************************************************************************)
(* Inputs                                                                  *)
(***************************************************************************)
MaxStatusLen == 5
MaxPad == 14
MaxSmallTare == 20

Strings(alphabet, n) == UNION {[1..k -> alphabet] : k \in 0..n}

Spaces(n) == [i \in 1..n |-> " "]

\* Arguments of Status::from_str: every string of up to MaxStatusLen
\* characters over flag characters, an ASCII non-flag and two non-ASCII
\* characters (2 and 3 bytes).
StatusAlphabet == {"0", "1", "x", "EACUTE", "EURO"}
StatusInputs == Strings(StatusAlphabet, MaxStatusLen)

\* Arguments of Message::from_str: whitespace, then a status, an id and a
\* net-weight field (the last one behind a run of spaces), then whitespace.
Leads == {<<>>, <<"NBSP">>}
Trails == {<<>>, <<" ">>}
StatusFields ==
    { <<"0", "0", "0", "0">>, <<"1", "0", "1", "1">>, <<"0", "1", "0", "0">>,
      <<"0", "x", "0", "0">>, <<"0", "0", "EACUTE">>,
      <<"0", "0", "0", "EACUTE">>, <<"0", "EURO">> }
IdFields ==
    { <<"0", "1">>, <<"9", "9">>, <<"W", "9">>, <<"9", "W">>, <<"W", "W">>,
      <<"X", "X">>, <<"+", "5">>, <<"-", "1">>, <<"W", "+">>,
      <<"1">>, <<"EACUTE">> }
WeightFields ==
    { <<"N", " ", "3", ",", "1", " ", "k", "g">>,
      <<"N", "-", " ", "3", ",", "7", "k", "g">>,
      <<"N", "3", ",", "1", "k", " ", "g">>,
      <<"N", "0", "1", "2", "3", ",", "7", "8", "k", "g">>,
      <<"N", "3", ".", "1", "0">>,
      <<"1">>,
      <<>>,
      <<"N", "k", "g">>,
      <<"N", "3", ",", "1", ",", "2", "k", "g">>,
      <<"N", "3", " ", "1", "x">>,
      <<"N", "TAB", "3", ",", "1", "k", "g">>,
      <<"N", "3", ",", "1", "EACUTE", "k", "g">> }
Pads == {0, 1} \cup ((MaxPad - 2)..MaxPad)
MessageInputs ==
    { l \o st \o id \o Spaces(p) \o w \o t :
        l \in Leads, st \in StatusFields, id \in IdFields,
        p \in Pads, w \in WeightFields, t \in Trails }

\* Arguments of Response::from_str: a control byte with anything behind it,
\* nothing but whitespace, or a message line.
ControlTails ==
    { <<>>, <<" ">>, <<"0">>, <<"EACUTE">>, <<"ACK">>, <<"NAK">>,
      <<"0", "0", "0", "0", "0", "1", "N", "1">> }
ResponseInputs ==
    { l \o c \o t : l \in Leads \cup {<<" ", "TAB">>},
                    c \in {<<>>, <<"ACK">>, <<"NAK">>}, t \in ControlTails }
    \cup
    { l \o st \o id \o w \o t :
        l \in Leads, st \in StatusFields, id \in IdFields,
        w \in WeightFields, t \in Trails }

\* Command values; SetTare carries a u32 (the values here stay below 2^31).
TareValues ==
    (0..MaxSmallTare)
    \cup {99, 100, 999, 1000, 9999, 10000, 99999, 100000, 999999, 1000000,
          1234567, 9999998, 9999999, 10000000, 10000001, 12345678,
          99999999, 100000000, 2147483647}
Commands ==
    {<<"Tare">>, <<"ClearTare">>} \cup {<<"SetTare", v>> : v \in TareValues}
Queries == {<<"Once">>, <<"OnceOnChange">>}

Inputs(k) ==
    CASE k = "Status"   -> StatusInputs
      [] k = "Message"  -> MessageInputs
      [] k = "Response" -> ResponseInputs
      [] k = "Command"  -> Commands
      [] k = "Query"    -> Queries

Kinds == {"Status", "Message", "Response", "Command", "Query"}

(***************************************************************************)
(* The calls                                                               *)
(***************************************************************************)
None == [tag |-> "None", val |-> [kind |-> "none", msg |-> "none"]]

Init ==
    /\ pc = "ready"
    /\ kind \in Kinds
    /\ arg \in Inputs(kind)
    /\ result = None
    /\ plain = None
    /\ acked = None

\* Status::from_str(arg)
StatusParse ==
    /\ pc = "ready" /\ kind = "Status"
    /\ result' = StatusFromStr(arg)
    /\ pc' = "done"
    /\ UNCHANGED <<kind, arg, plain, acked>>

\* Message::from_str(arg)
MessageParse ==
    /\ pc = "ready" /\ kind = "Message"
    /\ result' = MessageFromStr(arg)
    /\ pc' = "done"
    /\ UNCHANGED <<kind, arg, plain, acked>>

\* Response::from_str(arg)
ResponseParse ==
    /\ pc = "ready" /\ kind = "Response"
    /\ result' = ResponseFromStr(arg)
    /\ pc' = "done"
    /\ UNCHANGED <<kind, arg, plain, acked>>

\* arg.to_ascii_string() for a Command
CommandSerialize ==
    /\ pc = "ready" /\ kind = "Command" /\ plain = None
    /\ plain' = CommandToAsciiString(arg)
    /\ pc' = IF acked = None THEN "ready" ELSE "done"
    /\ UNCHANGED <<kind, arg, result, acked>>

\* arg.with_ack().to_ascii_string() for a Command
CommandWithAckSerialize ==
    /\ pc = "ready" /\ kind = "Command" /\ acked = None
    /\ acked' = WithAckCommandToAsciiString(with_ack(arg))
    /\ pc' = IF plain = None THEN "ready" ELSE "done"
    /\ UNCHANGED <<kind, arg, result, plain>>

\* arg.to_ascii_string() for a Query
QuerySerialize ==
    /\ pc = "ready" /\ kind = "Query" /\ plain = None
    /\ plain' = QueryToAsciiString(arg)
    /\ pc' = IF acked = None THEN "ready" ELSE "done"
    /\ UNCHANGED <<kind, arg, result, acked>>

\* arg.with_ack().to_ascii_string() for a Query
QueryWithAckSerialize ==
    /\ pc = "ready" /\ kind = "Query" /\ acked = None
    /\ acked' = WithAckQueryToAsciiString(with_ack(arg))
    /\ pc' = IF plain = None THEN "ready" ELSE "done"
    /\ UNCHANGED <<kind, arg, result, plain>>

Next ==
    \/ StatusParse
    \/ MessageParse
    \/ ResponseParse
    \/ CommandSerialize
    \/ CommandWithAckSerialize
    \/ QuerySerialize
    \/ QueryWithAckSerialize

Spec == Init /\ [][Next]_vars

TypeOK ==
    /\ pc \in {"ready", "done"}
    /\ kind \in Kinds
    /\ result.tag \in {"None", "Ok", "Err", "Panic"}
    /\ plain.tag \in {"None", "Ok", "Err"}
    /\ acked.tag \in {"None", "Ok", "Err"}

(***************************************************************************)
(* The error taxonomy, as the caller can observe it                        *)
(***************************************************************************)
TareValue(r) ==
    IsErr(r) /\ r.val = [kind |-> "InvalidInput", msg |-> "Invalid tare value"]
MessageLength(r) ==
    IsErr(r) /\ r.val = [kind |-> "InvalidData",
                         msg |-> "Invalid message length"]
NonAsciiStr(r) ==
    IsErr(r) /\ r.val.kind = "InvalidData"
             /\ r.val.msg \in {"Non-ASCII str", "None-ASCII str"}
BalanceId(r) ==
    IsErr(r) /\ r.val = [kind |-> "InvalidData", msg |-> "Invalid balance ID"]
ParseBoolean(r) ==
    IsErr(r) /\ r.val = [kind |-> "InvalidData",
                         msg |-> "Could not parse boolean"]

IsFlags(s) == \A i \in 1..Len(s) : s[i] \in {"0", "1"}

(***************************************************************************)
(* Command / Query serializer: C1, C2                                      *)
(***************************************************************************)
\* C1: serializing a plain Command gives "<T>" for Tare, "<TC>" for
\* ClearTare, "<T" + v as exactly 7 zero-padded decimal digits + ">" (10
\* characters) for SetTare(v) with 0 <= v <= 9,999,999, and fails with
\* TareValue, producing no string, for every v > 9,999,999.
C1_CommandSerialization ==
    (kind = "Command" /\ plain # None) =>
        /\ arg = <<"Tare">> => IsOk(plain) /\ plain.val = <<"<", "T", ">">>
        /\ arg = <<"ClearTare">> =>
               IsOk(plain) /\ plain.val = <<"<", "T", "C", ">">>
        /\ (arg[1] = "SetTare" /\ arg[2] >= 0 /\ arg[2] <= 9999999) =>
               /\ IsOk(plain)
               /\ Len(plain.val) = 10
               /\ SubSeq(plain.val, 1, 2) = <<"<", "T">>
               /\ plain.val[10] = ">"
               /\ AllDigits(SubSeq(plain.val, 3, 9))
               /\ DecVal(SubSeq(plain.val, 3, 9)) = arg[2]
        /\ (arg[1] = "SetTare" /\ arg[2] > 9999999) => TareValue(plain)

C1_Witness ==
    /\ kind = "Command" /\ arg = <<"SetTare", 100>>
    /\ IsOk(plain)
    /\ plain.val = <<"<", "T", "0", "0", "0", "0", "1", "0", "0", ">">>

Lower(c) ==
    CASE c = "T" -> "t" [] c = "A" -> "a" [] c = "B" -> "b" [] OTHER -> c

\* C2: for every Command and Query x, serializing x.with_ack() fails exactly
\* when serializing x fails, and when both succeed the acked string is the
\* plain string with only the tag letter after '<' lowercased, every other
\* character (the 'C' of ClearTare, the 7 padded digits) unchanged.
C2_AckLowercasesTagOnly ==
    (kind \in {"Command", "Query"} /\ plain # None /\ acked # None) =>
        /\ IsErr(acked) <=> IsErr(plain)
        /\ IsOk(acked) <=> IsOk(plain)
        /\ IsOk(plain) =>
               /\ plain.val[2] \in {"T", "A", "B"}
               /\ acked.val = [plain.val EXCEPT ![2] = Lower(plain.val[2])]

C2_Witness ==
    /\ kind = "Command" /\ arg = <<"SetTare", 5>>
    /\ IsOk(plain)
    /\ IsOk(acked)
    /\ acked.val = <<"<", "t", "0", "0", "0", "0", "0", "0", "5", ">">>

(***************************************************************************)
(* Response classifier: C3                                                 *)
(***************************************************************************)
\* C3: Response-parse trims its input; it fails with MessageLength if the
\* trimmed text is empty, returns Ack whenever the first byte of the trimmed
\* text is 0x06 and Nak whenever it is 0x15, whatever follows, and otherwise
\* returns what Message-parse returns on the trimmed text: wrapped as
\* Message on success, the same error on failure.
C3_ResponseClassification ==
    (kind = "Response" /\ pc = "done") =>
        LET s == Trim(arg)
            m == MessageFromStr(s)
        IN  IF s = <<>> THEN MessageLength(result)
            ELSE IF LeadByte(Head(s)) = 6
            THEN IsOk(result) /\ result.val = [variant |-> "Ack"]
            ELSE IF LeadByte(Head(s)) = 21
            THEN IsOk(result) /\ result.val = [variant |-> "Nak"]
            ELSE IF IsOk(m)
            THEN IsOk(result)
                 /\ result.val = [variant |-> "Message", msg |-> m.val]
            ELSE result = m

C3_Witness ==
    /\ kind = "Response" /\ pc = "done"
    /\ arg = <<"NBSP", "ACK", "0">>
    /\ IsOk(result)
    /\ result.val = [variant |-> "Ack"]

(***************************************************************************)
(* Status codec: C4, C5                                                    *)
(***************************************************************************)
FlagsMatch(s, st) ==
    /\ st.under_load    <=> s[1] = "1"
    /\ st.over_load     <=> s[2] = "1"
    /\ st.standstill    <=> s[3] = "1"
    /\ st.empty_message <=> s[4] = "1"

\* C4 as stated: every 4-character string of '0'/'1' parses to the flags at
\* positions 1..4, and every other 4-character string fails with
\* ParseBoolean.
C4_Original ==
    (kind = "Status" /\ pc = "done" /\ Len(arg) = 4) =>
        IF IsFlags(arg)
        THEN IsOk(result) /\ FlagsMatch(arg, result.val)
        ELSE ParseBoolean(result)

\* C4 as amended: every 4-character string of '0'/'1' parses to the flags at
\* positions 1..4, and every other 4-character string made only of ASCII
\* characters fails with ParseBoolean.
C4_StatusFlags ==
    (kind = "Status" /\ pc = "done" /\ Len(arg) = 4 /\ IsAscii(arg)) =>
        IF IsFlags(arg)
        THEN IsOk(result) /\ FlagsMatch(arg, result.val)
        ELSE ParseBoolean(result)

C4_Witness ==
    /\ kind = "Status" /\ pc = "done"
    /\ arg = <<"0", "1", "x", "1">>
    /\ ParseBoolean(result)

\* C5 as stated: Status-parse fails with MessageLength for every input whose
\* length is not 4 and with NonAsciiStr for every input with a non-ASCII
\* byte, whatever its length; neither kind of input yields ParseBoolean.
C5_Original ==
    (kind = "Status" /\ pc = "done") =>
        /\ ByteLen(arg) # 4 => MessageLength(result)
        /\ ~IsAscii(arg) => NonAsciiStr(result)
        /\ (ByteLen(arg) # 4 \/ ~IsAscii(arg)) => ~ParseBoolean(result)

\* C5 as amended: Status-parse fails with MessageLength for every input
\* whose length in bytes is not 4, and with NonAsciiStr for every input of 4
\* bytes that contains a non-ASCII byte; neither kind of input yields
\* ParseBoolean.
C5_StatusChecks ==
    (kind = "Status" /\ pc = "done") =>
        /\ ByteLen(arg) # 4 => MessageLength(result)
        /\ (ByteLen(arg) = 4 /\ ~IsAscii(arg)) => NonAsciiStr(result)
        /\ (ByteLen(arg) # 4 \/ ~IsAscii(arg)) => ~ParseBoolean(result)

C5_Witness ==
    /\ kind = "Status" /\ pc = "done"
    /\ arg = <<"x", "EURO">>
    /\ NonAsciiStr(result)

(***************************************************************************)
(* Message codec: C6 .. C10                                                *)
(***************************************************************************)
\* The trimmed line and its three fields, for a line that passes the length
\* and ASCII steps (so that bytes and characters coincide).
Line == Trim(arg)
PassesLength == ByteLen(Line) >= 7 /\ ByteLen(Line) <= 27
PassesGate == PassesLength /\ IsAscii(Line)
StatusField == SubSeq(Line, 1, 4)
IdField == SubSeq(Line, 5, 6)
WeightField == SubSeq(Line, 7, Len(Line))
MessageDone == kind = "Message" /\ pc = "done"

\* C6: an input that passes the length, ASCII, status and id steps but whose
\* net-weight field does not reduce to a number fails with an error the
\* caller can tell apart from the BalanceId error of a bad id field.
C6_BalanceValueDistinct ==
    (/\ MessageDone
     /\ PassesGate
     /\ IsFlags(StatusField)
     /\ ParseId(IdField).ok
     /\ ~ParseValue(NettoValue(WeightField)).ok) =>
        IsErr(result) /\ ~BalanceId(result)

SameOutcome(r1, r2) ==
    \/ IsOk(r1) /\ IsOk(r2) /\ r1.val = r2.val
    \/ ~IsOk(r1) /\ ~IsOk(r2)

\* The line with one more space in its net-weight field, after the i-th
\* character of the field.
WithSpaceAt(i) ==
    SubSeq(Line, 1, 6 + i) \o <<" ">> \o SubSeq(Line, 7 + i, Len(Line))

\* C7: the outcome of Message-parse depends on the net-weight field only
\* through that field with all spaces deleted: two inputs of trimmed length
\* 7..27 with the same first 6 bytes whose net-weight fields are equal up to
\* spaces both succeed with the same status, id and value, or both fail.
\* (Stated for the generating step: one more space anywhere in the field.)
C7_SpacesIrrelevant ==
    (MessageDone /\ PassesGate) =>
        \A i \in 0..Len(WeightField) :
            (ByteLen(Trim(WithSpaceAt(i))) <= 27) =>
                SameOutcome(result, MessageFromStr(WithSpaceAt(i)))

\* C8: Message-parse fails fast in the order length, ASCII, status, id,
\* weight: a trimmed length outside 7..27 gives MessageLength whatever the
\* content; otherwise a non-ASCII byte gives NonAsciiStr; otherwise a bad
\* status flag gives ParseBoolean even if id or weight is bad too; otherwise
\* a bad id gives BalanceId even if the weight is bad too; and the result is
\* an error or a complete Message, never a partial one.
C8_FailFastOrder ==
    MessageDone =>
        /\ IF ~PassesLength THEN MessageLength(result)
           ELSE IF ~IsAscii(Line) THEN NonAsciiStr(result)
           ELSE IF ~IsFlags(StatusField) THEN ParseBoolean(result)
           ELSE IF ~ParseId(IdField).ok THEN BalanceId(result)
           ELSE IsOk(result) \/ IsErr(result)
        /\ IsOk(result) =>
               /\ DOMAIN result.val = {"status", "id", "value"}
               /\ FlagsMatch(StatusField, result.val.status)
               /\ ParseId(IdField).ok
               /\ ParseValue(NettoValue(WeightField)).ok

C8_Witness ==
    /\ MessageDone
    /\ arg = <<"0", "x", "0", "0", "X", "X", "N", "3", " ", "1", "x">>
    /\ ParseBoolean(result)

\* C9: for every input, Status-parse, Message-parse and Response-parse
\* return an ordinary success or error value and never abort: no split and
\* no first-byte read is made outside the string or off a character
\* boundary.
C9_NeverPanics ==
    (kind \in {"Status", "Message", "Response"} /\ pc = "done") =>
        result.tag \in {"Ok", "Err"}

C9_Witness ==
    /\ MessageDone
    /\ arg = <<"0", "0", "0", "EACUTE", "0", "1", "N", "k", "g">>
    /\ NonAsciiStr(result)

\* The id field with every 'W' removed.
IdDigits == Replace(IdField, <<"W">>, <<>>)

\* C10: for every input that passes the length, ASCII and status steps, the
\* parse fails with BalanceId unless the id field with every 'W' removed is
\* a non-empty string of decimal digits; whenever the parse succeeds, the id
\* is the number those digits denote and lies in 0..99.
C10_IdIsDigits ==
    (MessageDone /\ PassesGate /\ IsFlags(StatusField)) =>
        /\ ~(IdDigits # <<>> /\ AllDigits(IdDigits)) => BalanceId(result)
        /\ IsOk(result) =>
               /\ IdDigits # <<>> /\ AllDigits(IdDigits)
               /\ result.val.id = DecVal(IdDigits)
               /\ result.val.id \in 0..99

====
